---------------------------- MODULE Spec2Model ----------------------------
(***************************************************************************)
(* A model of oogway/go-cache: the Cache contract implemented by the       *)
(* process-local InMemoryCache (inmemory.go, a go-cache map behind an      *)
(* RWMutex) and by the lock-based RedisCache (redis.go, go-redis client,   *)
(* lockRetry around Add / Replace / SetFields).                            *)
(*                                                                         *)
(* Time is a discrete clock `now`; one unit is the 5 second safety window  *)
(* of the lock token.  Values are Go values; what the stores hold is what  *)
(* the code writes: the Go value itself (go-cache) or a byte payload       *)
(* (redis), the latter modelled as the sequence of its JSON lexemes.       *)
(***************************************************************************)
EXTENDS Integers, Sequences, FiniteSets, TLC

VARIABLES
    backend,   \* which implementation of the Cache interface is under test
    now,       \* the clock
    db,        \* the redis server's keyspace: key -> [val, exp]
    items,     \* go-cache's map: key -> [Object, Expiration]
    lockRetries, \* the field RedisCache.lockRetries
    callers,   \* the goroutines inside lockRetry: position and locals
    log,       \* per key, the last completed operation that writes
    obs,       \* what a Get or Keys made in the current state returned
    ghost,     \* history of the lock protocol (not program state)
    getter     \* the Getter the last GetMulti returned

vars == <<backend, now, db, items, lockRetries, callers, log, obs, ghost, getter>>

----------------------------------------------------------------------------
(* Bounds and domains                                                      *)

MaxNow == 3

Callers == {"g1", "g2", "g3"}

Keys == {"a"}

FieldOrder == <<"a", "b">>
FieldNames == {FieldOrder[i] : i \in 1..Len(FieldOrder)}

Nums == {1, 2}
Strs == {"foo"}

Num(n) == [num |-> n]
Str(s) == [str |-> s]
Map(f) == [map |-> f]

IsNum(v) == DOMAIN v = {"num"}
IsStr(v) == DOMAIN v = {"str"}
IsMap(v) == DOMAIN v = {"map"}

Scalars == {Num(1)} \cup {Str(s) : s \in Strs}

\* the mappings callers pass to SetFields, and the one they Set

PartialMaps == {Map([f \in {g} |-> Num(2)]) : g \in FieldNames}

Values == Scalars \cup {Map([f \in {"a"} |-> Num(1)])}

----------------------------------------------------------------------------
(* The contract's sentinels and errors (cache.go)                          *)

DefaultExpiryTime == 0
ForEverNeverExpiry == -1

Nil == "nil"
ErrCacheMiss == "ErrCacheMiss"
ErrNotStored == "ErrNotStored"
\* errors.New("Cannot get Lock. Retrying.")
ErrLock == "ErrLock"
\* go-redis: "redis: can't marshal map[string]interface {}"
ErrCantMarshal == "ErrCantMarshal"
\* encoding/json: *json.SyntaxError and *json.UnmarshalTypeError
ErrSyntax == "ErrSyntax"
ErrUnmarshalType == "ErrUnmarshalType"

NoValue == [none |-> TRUE]

----------------------------------------------------------------------------
(* The value codec: encoding/json and go-redis' argument writer            *)

Quote(s) == "\"" \o s \o "\""

\* json.Marshal: a number is its digits, a string is quoted, a map is an
\* object whose members are sorted by key
MarshalScalar(v) == IF IsNum(v) THEN ToString(v.num) ELSE Quote(v.str)

RECURSIVE MarshalMembers(_, _)
MarshalMembers(f, order) ==
    IF order = <<>> THEN <<>>
    ELSE LET k    == Head(order)
             rest == MarshalMembers(f, Tail(order))
         IN  IF k \in DOMAIN f
             THEN <<Quote(k), ":", MarshalScalar(f[k])>>
                      \o (IF rest = <<>> THEN <<>> ELSE <<",">> \o rest)
             ELSE rest

Marshal(v) ==
    IF IsMap(v) THEN <<"{">> \o MarshalMembers(v.map, FieldOrder) \o <<"}">>
    ELSE <<MarshalScalar(v)>>

\* go-redis appendArg: a string is written as its bytes, an int as its
\* digits, []byte as is; a map is refused
AppendArg(v) ==
    IF IsNum(v) THEN [err |-> Nil, b |-> <<ToString(v.num)>>]
    ELSE IF IsStr(v) THEN [err |-> Nil, b |-> <<v.str>>]
    ELSE [err |-> ErrCantMarshal, b |-> <<>>]

IsNumLexeme(x) == \E n \in Nums : x = ToString(n)
IsStrLexeme(x) == \E s \in Strs \cup FieldNames : x = Quote(s)
ParseScalar(x) ==
    IF IsNumLexeme(x) THEN Num(CHOOSE n \in Nums : x = ToString(n))
    ELSE Str(CHOOSE s \in Strs \cup FieldNames : x = Quote(s))

\* the members between the braces: "k" : scalar , "k" : scalar ...
MembersOK(m) ==
    /\ Len(m) % 4 = 3
    /\ \A i \in 1..Len(m) :
          CASE i % 4 = 1 -> IsStrLexeme(m[i])
            [] i % 4 = 2 -> m[i] = ":"
            [] i % 4 = 3 -> IsNumLexeme(m[i]) \/ IsStrLexeme(m[i])
            [] OTHER     -> m[i] = ","

MemberKeys(m) == {ParseScalar(m[i]).str : i \in {j \in 1..Len(m) : j % 4 = 1}}

\* a repeated key keeps its last value
MemberValue(m, k) ==
    LET at == {j \in 1..Len(m) : j % 4 = 1 /\ ParseScalar(m[j]).str = k}
        i  == CHOOSE j \in at : \A h \in at : h <= j
    IN  ParseScalar(m[i + 2])

IsObject(b) ==
    /\ Len(b) >= 2
    /\ b[1] = "{"
    /\ b[Len(b)] = "}"
    /\ Len(b) = 2 \/ MembersOK(SubSeq(b, 2, Len(b) - 1))

ParseObject(b) ==
    LET m == SubSeq(b, 2, Len(b) - 1)
    IN  Map([k \in (IF Len(b) = 2 THEN {} ELSE MemberKeys(m)) |-> MemberValue(m, k)])

ValidJSON(b) ==
    \/ Len(b) = 1 /\ (IsNumLexeme(b[1]) \/ IsStrLexeme(b[1]))
    \/ IsObject(b)

Parse(b) == IF IsObject(b) THEN ParseObject(b) ELSE ParseScalar(b[1])

\* the shapes a caller asks Get to decode into
Targets == {"int", "string", "map"}

Fits(v, target) ==
    \/ target = "int" /\ IsNum(v)
    \/ target = "string" /\ IsStr(v)
    \/ target = "map" /\ IsMap(v)

\* json.Unmarshal(b, ptrValue)
Unmarshal(b, target) ==
    IF ~ValidJSON(b) THEN [err |-> ErrSyntax, val |-> NoValue]
    ELSE IF ~Fits(Parse(b), target) THEN [err |-> ErrUnmarshalType, val |-> NoValue]
    ELSE [err |-> Nil, val |-> Parse(b)]

TargetOf(v) == IF IsNum(v) THEN "int" ELSE IF IsStr(v) THEN "string" ELSE "map"

----------------------------------------------------------------------------
(* Configuration                                                           *)

\* const lockRetries = 5, the default of the field RedisCache.lockRetries
defaultLockRetries == 5

\* the token's expiry, 5*time.Second: one unit of the clock
lockExpiry == 1

\* the duration NewInMemoryCache is constructed with
defaultExpiration == 1

\* the expiry arguments callers pass: the two sentinels and a duration
Expiries == {ForEverNeverExpiry, DefaultExpiryTime, 1}

LockKey(key) == key \o "-op"

----------------------------------------------------------------------------
(* Maps                                                                    *)

NoEntry == [absent |-> TRUE]
\* in a log record: the key's entry had expired and redis had dropped it
ExpiredEntry == [expired |-> TRUE]

Put(f, k, e) == [x \in DOMAIN f \cup {k} |-> IF x = k THEN e ELSE f[x]]
Drop(f, K) == [x \in DOMAIN f \ K |-> f[x]]
Lookup(f, k) == IF k \in DOMAIN f THEN f[k] ELSE NoEntry

----------------------------------------------------------------------------
(* The redis server, as the go-redis client commands see it                *)

\* an expiry of 0 is none; redis deletes a key once the clock passed it
KeyIsExpired(e, t) == e.exp > 0 /\ t > e.exp

\* faulty variant: a server that never expires a key
PurgeNone(d, t) == d

Purge(d, t) == Drop(d, {k \in DOMAIN d : KeyIsExpired(d[k], t)})

\* SET key b [EX expiration]: go-redis sends an expiry only if it is > 0
RedisSET(d, key, b, expiration, t) ==
    Put(d, key, [val |-> b, exp |-> IF expiration > 0 THEN t + expiration ELSE 0])

\* faulty variant: NX dropped: the token is written over an existing one
RedisSETNXAlways(d, key, b, expiration, t) ==
    [ret |-> TRUE, db |-> RedisSET(d, key, b, expiration, t)]

\* SET key b EX expiration NX
RedisSETNX(d, key, b, expiration, t) ==
    IF key \in DOMAIN d
    THEN [ret |-> FALSE, db |-> d]
    ELSE [ret |-> TRUE, db |-> RedisSET(d, key, b, expiration, t)]

\* faulty variant: EXISTS that never sees the key
RedisEXISTSNone(d, key) == 0

\* EXISTS key
RedisEXISTS(d, key) == IF key \in DOMAIN d THEN 1 ELSE 0

\* faulty variant: a release that leaves the token in place
RedisDELNone(d, key) == d

\* DEL key
RedisDEL(d, key) == Drop(d, {key})
RedisKEYS(d) == DOMAIN d
RedisFLUSHALL(d) == Drop(d, DOMAIN d)

\* pool.Set(key, value, expires) with a Go value: the client writes the
\* argument itself, and sends nothing when it cannot
PoolSet(d, key, value, expires, t) ==
    LET a == AppendArg(value)
    IN  IF a.err # Nil THEN [err |-> a.err, db |-> d]
        ELSE [err |-> Nil, db |-> RedisSET(d, key, a.b, expires, t)]

----------------------------------------------------------------------------
(* RedisCache: the operations that are one round trip                      *)

\* faulty variant: the value handed to pool.Set as it is, without json.Marshal
RedisCacheSetRaw(d, key, value, expires, t) == PoolSet(d, key, value, expires, t)

\* RedisCache.Set: json.Marshal, then pool.Set of the bytes
RedisCacheSet(d, key, value, expires, t) ==
    [err |-> Nil, db |-> RedisSET(d, key, Marshal(value), expires, t)]

\* RedisCache.Get: redis.Nil is ErrCacheMiss, else json.Unmarshal
RedisCacheGet(d, key, target) ==
    IF key \notin DOMAIN d THEN [err |-> ErrCacheMiss, val |-> NoValue]
    ELSE Unmarshal(d[key].val, target)

\* faulty variant: Delete that reports a miss when DEL removed nothing
RedisCacheDeleteMiss(d, key) ==
    [err |-> IF key \in DOMAIN d THEN Nil ELSE ErrCacheMiss, db |-> RedisDEL(d, key)]

\* RedisCache.Delete: the error of DEL, whatever the count it removed
RedisCacheDelete(d, key) == [err |-> Nil, db |-> RedisDEL(d, key)]
RedisCacheKeys(d) == RedisKEYS(d)

\* MGET keys...: one reply per key, nil for a key that does not exist
RedisMGET(d, keys) ==
    [ix \in 1..Len(keys) |-> IF keys[ix] \in DOMAIN d THEN d[keys[ix]].val ELSE Nil]

\* RedisCache.GetMulti: ErrCacheMiss for an empty reply; res[ix].(string)
\* is a type assertion, which panics on a nil reply
RedisCacheGetMulti(d, keys) ==
    LET res == RedisMGET(d, keys)
    IN  IF Len(res) = 0 THEN [kind |-> "none", err |-> ErrCacheMiss]
        ELSE IF \E ix \in 1..Len(keys) : res[ix] = Nil THEN [kind |-> "panic"]
        ELSE [kind |-> "map", err |-> Nil,
              m |-> [k \in {keys[ix] : ix \in 1..Len(keys)} |->
                       res[CHOOSE ix \in 1..Len(keys) : keys[ix] = k]]]

\* RedisItemMapGetter.Get
RedisItemMapGetterGet(g, key, target) ==
    IF key \notin DOMAIN g THEN [err |-> ErrCacheMiss, val |-> NoValue]
    ELSE Unmarshal(g[key], target)
RedisCacheFlush(d) == [err |-> Nil, db |-> RedisFLUSHALL(d)]

----------------------------------------------------------------------------
(* go-cache (patrickmn), as InMemoryCache calls it                         *)

\* faulty variant: items that never expire
ItemNeverExpired(it, t) == FALSE

\* Item.Expired: an Expiration of 0 is none
ItemExpired(it, t) == it.Expiration > 0 /\ t > it.Expiration

Found(m, k, t) == k \in DOMAIN m /\ ~ItemExpired(m[k], t)

\* cache.Set: DefaultExpiration (0) is the configured one, a negative
\* duration (NoExpiration) never expires
CacheSet(m, k, x, d, t) ==
    LET dd == IF d = DefaultExpiryTime THEN defaultExpiration ELSE d
    IN  Put(m, k, [Object |-> x, Expiration |-> IF dd > 0 THEN t + dd ELSE 0])

CacheItems(m, t) == {k \in DOMAIN m : ~ItemExpired(m[k], t)}
CacheDeleteExpired(m, t) == Drop(m, {k \in DOMAIN m : ItemExpired(m[k], t)})

----------------------------------------------------------------------------
(* InMemoryCache: every operation runs under the mutex                     *)

InMemoryGet(m, key, target, t) ==
    IF ~Found(m, key, t) THEN [err |-> ErrCacheMiss, val |-> NoValue]
    ELSE Unmarshal(Marshal(m[key].Object), target)

\* the merge loop: for k, v := range value { existing[k] = v }
Merge(existing, value) ==
    [f \in DOMAIN existing \cup DOMAIN value |->
        IF f \in DOMAIN value THEN value[f] ELSE existing[f]]

InMemorySetFields(m, key, value, expires, t) ==
    IF ~Found(m, key, t) THEN [err |-> ErrNotStored, items |-> m]
    ELSE LET u == Unmarshal(Marshal(m[key].Object), "map")
         IN  IF u.err # Nil THEN [err |-> u.err, items |-> m]
             ELSE [err   |-> Nil,
                   items |-> CacheSet(m, key, Map(Merge(u.val.map, value.map)), expires, t)]

InMemorySet(m, key, value, expires, t) ==
    [err |-> Nil, items |-> CacheSet(m, key, value, expires, t)]

InMemoryAdd(m, key, value, expires, t) ==
    IF Found(m, key, t) THEN [err |-> ErrNotStored, items |-> m]
    ELSE [err |-> Nil, items |-> CacheSet(m, key, value, expires, t)]

InMemoryReplace(m, key, value, expires, t) ==
    IF ~Found(m, key, t) THEN [err |-> ErrNotStored, items |-> m]
    ELSE [err |-> Nil, items |-> CacheSet(m, key, value, expires, t)]

\* InMemoryCache.GetMulti: return c, nil: the Getter is the cache itself
InMemoryGetMulti(keys) == [kind |-> "cache", err |-> Nil]

InMemoryKeys(m, t) == CacheItems(m, t)
InMemoryDelete(m, key) == [err |-> Nil, items |-> Drop(m, {key})]
\* faulty variant: Flush that leaves the items in place
InMemoryFlushNone(m) == [err |-> Nil, items |-> m]

InMemoryFlush(m) == [err |-> Nil, items |-> Drop(m, DOMAIN m)]

----------------------------------------------------------------------------
(* State                                                                   *)

Idle ==
    [pc |-> "idle", op |-> "none", key |-> "", value |-> NoValue, expires |-> 0,
     attempt |-> 0, breakErr |-> Nil, ptrValue |-> NoValue, ret |-> "none"]

\* at is when the operation was called; err is "pending" until it returns
NoRec == [op |-> "none", arg |-> NoValue, d |-> 0, err |-> Nil, pre |-> NoEntry, at |-> 0]

Rec(op, arg, d, err, pre, at) ==
    [op |-> op, arg |-> arg, d |-> d, err |-> err, pre |-> pre, at |-> at]

NoObs == [op |-> "none"]

\* the entry under key k, whichever store holds it
EntryIn(b, d, m, k) == IF b = "redis" THEN Lookup(d, k) ELSE Lookup(m, k)
Entry(k) == EntryIn(backend, db, items, k)

\* whether a read at time t finds the entry e
LiveAt(b, e, t) ==
    /\ e \notin {NoEntry, ExpiredEntry}
    /\ IF b = "redis" THEN ~KeyIsExpired(e, t) ELSE ~ItemExpired(e, t)
Live(k) == LiveAt(backend, Entry(k), now)

\* what a log record keeps of the entry an operation found
PreOf(k) == IF backend = "redis" /\ k \in ghost.expired THEN ExpiredEntry ELSE Entry(k)

\* inside the critical section of lockRetry: the token was created, the
\* deferred delete has not run
Holding(c) == c.pc \in {"crit", "write", "unlock"}

\* no Getter has been returned yet; the stores as no GetMulti has seen them
NoGetter == [kind |-> "none"]
NoSnap == [keys |-> {}, db |-> <<>>, items |-> <<>>, at |-> 0]

InitWith(b, retries) ==
    /\ backend = b
    /\ now = 1
    /\ db = <<>>
    /\ items = <<>>
    /\ lockRetries = retries
    /\ callers = [p \in Callers |-> Idle]
    /\ log = [k \in Keys |-> NoRec]
    /\ obs = NoObs
    /\ ghost = [owner |-> <<>>, lost |-> FALSE, dirty |-> {}, clobbered |-> "",
                expired |-> {}, aged |-> FALSE, snap |-> NoSnap, torn |-> "",
                fault |-> <<>>]
    /\ getter = NoGetter

\* the tokens that are no longer the entry their creator wrote, and whether
\* one of them was taken from under a caller still in its critical section
GhostStep(d2, releaser) ==
    LET gone == {lk \in DOMAIN ghost.owner : Lookup(d2, lk) # Lookup(db, lk)}
    IN  [ghost EXCEPT
           !.expired = {k \in @ : k \notin DOMAIN d2},
           !.owner = Drop(@, gone),
           !.lost  = @ \/ \E lk \in gone :
                            /\ ghost.owner[lk] # releaser
                            /\ Holding(callers[ghost.owner[lk]])
                            /\ LockKey(callers[ghost.owner[lk]].key) = lk]

AllIdle == \A p \in Callers : callers[p].pc = "idle"

\* how a specification runs the operations: whether completed operations
\* are logged, and whether a caller keeps the arguments of its last call
SeqMode == [log |-> TRUE, keep |-> "none"]
ConcMode == [log |-> FALSE, keep |-> "none"]
OnceMode == [log |-> FALSE, keep |-> "call"]
FaultMode == [log |-> FALSE, keep |-> "tries"]

----------------------------------------------------------------------------
(* Time                                                                    *)

\* the clock advances; the redis server drops the keys whose expiry passed
Tick ==
    /\ now < MaxNow
    /\ now' = now + 1
    /\ db' = Purge(db, now + 1)
    /\ ghost' = [GhostStep(db', "") EXCEPT
                   !.expired = @ \cup (Keys \cap (DOMAIN db \ DOMAIN db')),
                   !.aged = @ \/ Keys \cap (DOMAIN db \ DOMAIN db') # {}]
    /\ obs' = NoObs
    /\ UNCHANGED <<getter, backend, items, lockRetries, callers, log>>

\* go-cache's janitor (cleanup interval time.Minute)
Janitor ==
    /\ backend = "inmemory"
    /\ items' = CacheDeleteExpired(items, now)
    /\ items' # items
    /\ obs' = NoObs
    /\ UNCHANGED <<getter, backend, now, db, lockRetries, callers, log, ghost>>

----------------------------------------------------------------------------
(* RedisCache.lockRetry and the three operations that run inside it        *)

\* a caller enters Add, Replace or SetFields
Call(p, op, key, value, expires, mode) ==
    /\ backend = "redis"
    /\ callers[p].pc = "idle"
    /\ callers' = [callers EXCEPT ![p] =
                     [Idle EXCEPT !.pc = "try", !.op = op, !.key = key,
                                  !.value = value, !.expires = expires,
                                  !.ret = "pending"]]
    /\ IF mode.log /\ key \in Keys
       THEN log' = [log EXCEPT ![key] = Rec(op, value, expires, "pending", PreOf(key), now)]
       ELSE UNCHANGED log
    /\ ghost' = [ghost EXCEPT !.fault = Drop(@, {p})]
    /\ obs' = NoObs
    /\ UNCHANGED <<getter, backend, now, db, items, lockRetries>>

\* lockRetry returns err to the caller of the operation
Returned(c, err, mode) ==
    CASE mode.keep = "call" ->
           [Idle EXCEPT !.op = c.op, !.key = c.key, !.value = c.value, !.ret = err]
      [] mode.keep = "ret"  -> [Idle EXCEPT !.ret = err]
      [] mode.keep = "tries" ->
           [Idle EXCEPT !.op = c.op, !.key = c.key, !.value = c.value, !.ret = err,
                        !.attempt = c.attempt]
      [] OTHER              -> Idle

LogReturn(p, err, mode) ==
    LET c == callers[p]
    IN  IF mode.log /\ c.key \in Keys
        THEN log' = [log EXCEPT ![c.key].err = err]
        ELSE UNCHANGED log

\* faulty variant: a budget that allows one attempt too many
ExhaustedLate(c) == c.attempt >= lockRetries

\* highbrow.Try(c.lockRetries, ...): the attempt just made was the last one
Exhausted(c) == c.attempt + 1 >= lockRetries

\* one attempt of highbrow.Try: SetNX of the token; on contention the
\* attempt is spent, and the last one returns the error
TryLock(p, mode) ==
    LET c == callers[p]
        r == RedisSETNX(db, LockKey(c.key), <<"1">>, lockExpiry, now)
    IN  /\ c.pc = "try"
        /\ db' = r.db
        /\ IF r.ret
           THEN /\ callers' = [callers EXCEPT ![p].pc = "crit"]
                /\ ghost' = [ghost EXCEPT !.owner = Put(@, LockKey(c.key), p)]
                /\ UNCHANGED log
           ELSE /\ callers' = [callers EXCEPT ![p] =
                                 IF Exhausted(c)
                                 THEN Returned(c, ErrLock, mode)
                                 ELSE [c EXCEPT !.attempt = @ + 1]]
                /\ UNCHANGED ghost
                /\ IF Exhausted(c)
                   THEN LogReturn(p, ErrLock, mode)
                   ELSE UNCHANGED log
        /\ obs' = NoObs
        /\ UNCHANGED <<getter, backend, now, items, lockRetries>>

\* the first round trip of the critical section: Exists for Add and
\* Replace, Get for SetFields
\* faulty variant: Add that writes without looking at Exists
AddCheckBlind(c) == [c EXCEPT !.pc = "write"]

AddCheck(c) ==
    IF RedisEXISTS(db, c.key) = 0
    THEN [c EXCEPT !.pc = "write"]
    ELSE [c EXCEPT !.pc = "unlock", !.breakErr = ErrNotStored]

\* faulty variant: Replace that writes without looking at Exists
ReplaceCheckBlind(c) == [c EXCEPT !.pc = "write"]

ReplaceCheck(c) ==
    IF RedisEXISTS(db, c.key) = 0
    THEN [c EXCEPT !.pc = "unlock", !.breakErr = ErrNotStored]
    ELSE [c EXCEPT !.pc = "write"]

\* faulty variant: SetFields that goes on to write whatever Get returned
SetFieldsReadLoose(c) == [c EXCEPT !.pc = "write"]

SetFieldsRead(c) ==
    LET g == RedisCacheGet(db, c.key, "map")
    IN  IF g.err # Nil
        THEN [c EXCEPT !.pc = "unlock", !.breakErr = g.err]
        ELSE [c EXCEPT !.pc = "write",
                       !.ptrValue = Map(Merge(g.val.map, c.value.map))]

\* an op that touches no key and returns nil: the closure that
\* TestRedisCache_LockRetry hands to lockRetry
SleepOp(c) == [c EXCEPT !.pc = "unlock", !.breakErr = Nil]

Check(p) ==
    LET c == callers[p]
    IN  /\ c.pc = "crit"
        /\ callers' = [callers EXCEPT ![p] =
                         CASE c.op = "Add"     -> AddCheck(c)
                           [] c.op = "Replace" -> ReplaceCheck(c)
                           [] c.op = "Sleep"   -> SleepOp(c)
                           [] OTHER            -> SetFieldsRead(c)]
        /\ ghost' = [ghost EXCEPT !.dirty = @ \ {p}]
        /\ obs' = NoObs
        /\ UNCHANGED <<getter, backend, now, db, items, lockRetries, log>>

\* the write of the critical section: Add and Replace hand the value to
\* pool.Set, SetFields hands its argument to RedisCache.Set
AddWrite(c) == PoolSet(db, c.key, c.value, c.expires, now)
ReplaceWrite(c) == PoolSet(db, c.key, c.value, c.expires, now)
SetFieldsWrite(c) == RedisCacheSet(db, c.key, c.value, c.expires, now)

Write(p) ==
    LET c == callers[p]
        r == CASE c.op = "Add"     -> AddWrite(c)
               [] c.op = "Replace" -> ReplaceWrite(c)
               [] OTHER            -> SetFieldsWrite(c)
    IN  /\ c.pc = "write"
        /\ db' = r.db
        /\ callers' = [callers EXCEPT ![p].pc = "unlock", ![p].breakErr = r.err,
                                      ![p].ptrValue = NoValue]
        /\ ghost' = [GhostStep(db', "") EXCEPT
                       !.dirty = @ \ {p},
                       !.clobbered =
                       IF c.op = "Add" /\ r.err = Nil /\ c.key \in DOMAIN db
                       THEN IF p \in ghost.dirty THEN "Set"
                            ELSE IF ghost.lost THEN "lost" ELSE "none"
                       ELSE @]
        /\ obs' = NoObs
        /\ UNCHANGED <<getter, backend, now, items, lockRetries, log>>

\* the deferred c.pool.Del(lockKey), then lockRetry returns breakErr
Unlock(p, mode) ==
    LET c == callers[p]
    IN  /\ c.pc = "unlock"
        /\ db' = RedisDEL(db, LockKey(c.key))
        /\ callers' = [callers EXCEPT ![p] = Returned(c, c.breakErr, mode)]
        /\ ghost' = GhostStep(db', p)
        /\ LogReturn(p, c.breakErr, mode)
        /\ obs' = NoObs
        /\ UNCHANGED <<getter, backend, now, items, lockRetries>>

\* the errors a round trip to the store can end with, other than a reply
StoreErrors == {"i/o timeout", "connection refused"}

\* faulty variant: a store error on SetNX spends an attempt like contention
SetNXFailedRetry(c, err, mode) ==
    IF Exhausted(c) THEN Returned(c, ErrLock, mode) ELSE [c EXCEPT !.attempt = @ + 1]

\* SetNX returned an error: breakErr = err and the closure returns nil, so
\* highbrow.Try stops and lockRetry returns breakErr
SetNXFailed(c, err, mode) == Returned(c, err, mode)

\* an attempt whose SetNX does not reach the server
TryLockFails(p, err, mode) ==
    LET c == callers[p]
    IN  /\ c.pc = "try"
        /\ callers' = [callers EXCEPT ![p] = SetNXFailed(c, err, mode)]
        /\ ghost' = [ghost EXCEPT
                       !.fault = Put(@, p, [err |-> err, attempt |-> c.attempt])]
        /\ obs' = NoObs
        /\ UNCHANGED <<getter, backend, now, db, items, lockRetries, log>>

\* a round trip of the critical section (Exists, Get or Set) that does not
\* reach the server: op() returns the error
OpFails(p, err) ==
    LET c == callers[p]
    IN  /\ c.pc \in {"crit", "write"}
        /\ callers' = [callers EXCEPT ![p].pc = "unlock", ![p].breakErr = err,
                                      ![p].ptrValue = NoValue]
        /\ ghost' = [ghost EXCEPT !.dirty = @ \ {p}]
        /\ obs' = NoObs
        /\ UNCHANGED <<getter, backend, now, db, items, lockRetries, log>>

\* the process of a caller dies between its SetNX and its deferred Del
Crash(p) ==
    /\ Holding(callers[p])
    /\ callers' = [callers EXCEPT ![p].pc = "crashed"]
    /\ obs' = NoObs
    /\ UNCHANGED <<getter, backend, now, db, items, lockRetries, log, ghost>>

----------------------------------------------------------------------------
(* The operations that are atomic: one round trip to redis, or one         *)
(* InMemoryCache method under its mutex                                    *)

Res(err, out, d, m) == [err |-> err, out |-> out, db |-> d, items |-> m]

SetRes(k, v, d) ==
    IF backend = "redis"
    THEN Res(RedisCacheSet(db, k, v, d, now).err, NoValue,
             RedisCacheSet(db, k, v, d, now).db, items)
    ELSE Res(InMemorySet(items, k, v, d, now).err, NoValue, db,
             InMemorySet(items, k, v, d, now).items)

GetRes(k, target) ==
    LET g == IF backend = "redis" THEN RedisCacheGet(db, k, target)
             ELSE InMemoryGet(items, k, target, now)
    IN  Res(g.err, g.val, db, items)

DeleteRes(k) ==
    IF backend = "redis"
    THEN Res(RedisCacheDelete(db, k).err, NoValue, RedisCacheDelete(db, k).db, items)
    ELSE Res(InMemoryDelete(items, k).err, NoValue, db, InMemoryDelete(items, k).items)

FlushRes ==
    IF backend = "redis"
    THEN Res(RedisCacheFlush(db).err, NoValue, RedisCacheFlush(db).db, items)
    ELSE Res(InMemoryFlush(items).err, NoValue, db, InMemoryFlush(items).items)

KeysRes ==
    IF backend = "redis"
    THEN Res(Nil, RedisCacheKeys(db), db, items)
    ELSE Res(Nil, InMemoryKeys(items, now), db, items)

\* the effect of a writing operation on key k, and its entry in the log
Atomic(k, op, arg, d, r, mode) ==
    /\ db' = r.db
    /\ items' = r.items
    /\ ghost' = [GhostStep(db', "") EXCEPT
                   !.expired = IF op = "Delete" THEN @ \ {k} ELSE @,
                   !.dirty = IF op = "Set"
                             THEN @ \cup {p \in Callers : callers[p].pc = "write"
                                                           /\ callers[p].key = k}
                             ELSE IF op = "Delete" /\ k \in DOMAIN items
                             THEN @ \cup {p \in Callers : callers[p].pc = "lwrite"
                                                           /\ callers[p].key = k}
                             ELSE @]
    /\ IF mode.log /\ k \in Keys
       THEN log' = [log EXCEPT ![k] = Rec(op, arg, d, r.err, PreOf(k), now)]
       ELSE UNCHANGED log
    /\ obs' = NoObs
    /\ UNCHANGED <<getter, backend, now, lockRetries, callers>>

Set(k, v, d, mode) == Atomic(k, "Set", v, d, SetRes(k, v, d), mode)
Delete(k, mode) == Atomic(k, "Delete", NoValue, 0, DeleteRes(k), mode)

\* Flush acts on the whole store: logged under every key
Flush(mode) ==
    LET r == FlushRes
    IN  /\ db' = r.db
        /\ items' = r.items
        /\ ghost' = [GhostStep(db', "") EXCEPT !.expired = {}]
        /\ IF mode.log
           THEN log' = [k \in Keys |-> Rec("Flush", NoValue, 0, r.err, PreOf(k), now)]
           ELSE UNCHANGED log
        /\ obs' = NoObs
        /\ UNCHANGED <<getter, backend, now, lockRetries, callers>>

\* the reads: what the caller gets back is kept in obs
Get(k, target) ==
    LET r == GetRes(k, target)
    IN  /\ obs' = [op |-> "Get", key |-> k, target |-> target, err |-> r.err, val |-> r.out]
        /\ UNCHANGED <<getter, backend, now, db, items, lockRetries, callers, log, ghost>>

KeysOp ==
    LET r == KeysRes
    IN  /\ obs' = [op |-> "Keys", err |-> r.err, keys |-> r.out]
        /\ UNCHANGED <<getter, backend, now, db, items, lockRetries, callers, log, ghost>>

\* GetMulti: the Getter it returns is kept, and what the stores held then
GetMulti(keys) ==
    LET r == IF backend = "redis" THEN RedisCacheGetMulti(db, keys)
             ELSE InMemoryGetMulti(keys)
    IN  /\ getter.kind # "panic"
        /\ getter' = IF r.kind = "none" THEN NoGetter
                      ELSE IF r.kind = "map" THEN [kind |-> "map", m |-> r.m]
                      ELSE [kind |-> r.kind]
        /\ obs' = IF r.kind = "panic" THEN [op |-> "GetMulti", err |-> "panic"]
                   ELSE [op |-> "GetMulti", err |-> r.err]
        /\ ghost' = [ghost EXCEPT
                       !.snap = [keys |-> {keys[ix] : ix \in 1..Len(keys)},
                                 db |-> db, items |-> items, at |-> now]]
        /\ UNCHANGED <<backend, now, db, items, lockRetries, callers, log>>

\* Get on the Getter that the last GetMulti returned
GetterGet(k, target) ==
    LET r == IF getter.kind = "map" THEN RedisItemMapGetterGet(getter.m, k, target)
             ELSE InMemoryGet(items, k, target, now)
    IN  /\ getter.kind \in {"map", "cache"}
        /\ obs' = [op |-> "GetterGet", key |-> k, target |-> target,
                    err |-> r.err, val |-> r.val]
        /\ UNCHANGED <<getter, backend, now, db, items, lockRetries, callers, log, ghost>>

\* InMemoryCache.Add, Replace and SetFields
LocalRes(r) == Res(r.err, NoValue, db, r.items)

LocalAdd(k, v, d, mode) ==
    /\ backend = "inmemory"
    /\ Atomic(k, "Add", v, d, LocalRes(InMemoryAdd(items, k, v, d, now)), mode)

LocalReplace(k, v, d, mode) ==
    /\ backend = "inmemory"
    /\ Atomic(k, "Replace", v, d, LocalRes(InMemoryReplace(items, k, v, d, now)), mode)

LocalSetFields(k, v, d, mode) ==
    /\ backend = "inmemory"
    /\ Atomic(k, "SetFields", v, d, LocalRes(InMemorySetFields(items, k, v, d, now)), mode)

----------------------------------------------------------------------------
(* InMemoryCache.SetFields, statement by statement, for callers that run   *)
(* concurrently: the mutex is taken with RLock, which other readers share  *)

\* the callers that hold the read lock of c.mu
Readers == {p \in Callers : callers[p].pc \in {"lread", "lwrite"}}

\* c.mu.RLock()
LocalSetFieldsLock(p, key, value, expires) ==
    /\ backend = "inmemory"
    /\ callers[p].pc = "idle"
    /\ callers' = [callers EXCEPT ![p] =
                     [Idle EXCEPT !.pc = "lread", !.op = "SetFields", !.key = key,
                                  !.value = value, !.expires = expires,
                                  !.ret = "pending"]]
    /\ obs' = NoObs
    /\ UNCHANGED <<getter, backend, now, db, items, lockRetries, log, ghost>>

\* c.cache.Get, json.Marshal, json.Unmarshal and the merge loop
LocalSetFieldsGet(p, mode) ==
    LET c == callers[p]
        u == Unmarshal(Marshal(items[c.key].Object), "map")
    IN  /\ c.pc = "lread"
        /\ callers' = [callers EXCEPT ![p] =
                         IF ~Found(items, c.key, now) THEN Returned(c, ErrNotStored, mode)
                         ELSE IF u.err # Nil THEN Returned(c, u.err, mode)
                         ELSE [c EXCEPT !.pc = "lwrite",
                                        !.ptrValue = Map(Merge(u.val.map, c.value.map))]]
        /\ ghost' = [ghost EXCEPT !.dirty = @ \ {p}]
        /\ obs' = NoObs
        /\ UNCHANGED <<getter, backend, now, db, items, lockRetries, log>>

\* c.cache.Set(key, existing, expires), return nil and the deferred RUnlock
LocalSetFieldsSet(p, mode) ==
    LET c == callers[p]
        atomic == InMemorySetFields(items, c.key, c.value, c.expires, now).items
    IN  /\ c.pc = "lwrite"
        /\ items' = CacheSet(items, c.key, c.ptrValue, c.expires, now)
        /\ callers' = [callers EXCEPT ![p] = Returned(c, Nil, mode)]
        /\ ghost' = [ghost EXCEPT
                       !.dirty = (@ \ {p}) \cup
                                 {q \in Callers \ {p} : callers[q].pc = "lwrite"
                                                        /\ callers[q].key = c.key},
                       !.torn = IF p \in ghost.dirty /\ items' # atomic
                                THEN IF Found(items, c.key, now) THEN "lost update"
                                     ELSE "resurrected"
                                ELSE @]
        /\ obs' = NoObs
        /\ UNCHANGED <<getter, backend, now, db, lockRetries, log>>

----------------------------------------------------------------------------
(* Spec: one client working through the contract, on either backend; an   *)
(* operation starts when the previous one has returned                     *)

Client == "g1"

Init == \E b \in {"inmemory", "redis"} : InitWith(b, defaultLockRetries)

SeqSet == \E k \in Keys, v \in Values, d \in Expiries : AllIdle /\ Set(k, v, d, SeqMode)
SeqGet == \E k \in Keys, t \in Targets : AllIdle /\ Get(k, t)
SeqDelete == \E k \in Keys : AllIdle /\ Delete(k, SeqMode)
SeqFlush == AllIdle /\ Flush(SeqMode)
SeqKeys == AllIdle /\ KeysOp

SeqAdd ==
    \E k \in Keys, v \in Values, d \in Expiries :
        IF backend = "redis" THEN Call(Client, "Add", k, v, d, SeqMode)
        ELSE LocalAdd(k, v, d, SeqMode)

SeqReplace ==
    \E k \in Keys, v \in Values, d \in Expiries :
        IF backend = "redis" THEN Call(Client, "Replace", k, v, d, SeqMode)
        ELSE LocalReplace(k, v, d, SeqMode)

SeqSetFields ==
    \E k \in Keys, v \in PartialMaps, d \in Expiries :
        IF backend = "redis" THEN Call(Client, "SetFields", k, v, d, SeqMode)
        ELSE LocalSetFields(k, v, d, SeqMode)

SeqTryLock == TryLock(Client, SeqMode)
SeqCheck == Check(Client)
SeqWrite == Write(Client)
SeqUnlock == Unlock(Client, SeqMode)

Next ==
    \/ SeqSet
    \/ SeqGet
    \/ SeqDelete
    \/ SeqFlush
    \/ SeqKeys
    \/ SeqAdd
    \/ SeqReplace
    \/ SeqSetFields
    \/ SeqTryLock
    \/ SeqCheck
    \/ SeqWrite
    \/ SeqUnlock
    \/ Tick
    \/ Janitor

Spec == Init /\ [][Next]_vars

----------------------------------------------------------------------------
(* SpecLock: goroutines running Add, Replace and SetFields concurrently    *)
(* against redis, while others Set, Delete and Flush                       *)

RetryBudget == 2

LockCallers == {"g1", "g2"}
LockExpiries == {ForEverNeverExpiry}
LockValues == {Num(1)}
LockMaps == {Map([f \in {"a"} |-> Num(1)])}
LockFields == {Map([f \in {"b"} |-> Num(2)])}

InitLock == InitWith("redis", RetryBudget)

LockCall ==
    \E p \in LockCallers, k \in Keys, d \in LockExpiries :
        \/ \E v \in LockValues : Call(p, "Add", k, v, d, ConcMode)
        \/ \E v \in LockValues : Call(p, "Replace", k, v, d, ConcMode)
        \/ \E v \in LockFields : Call(p, "SetFields", k, v, d, ConcMode)

LockTryLock == \E p \in LockCallers : TryLock(p, ConcMode)
LockCheck == \E p \in LockCallers : Check(p)
LockWrite == \E p \in LockCallers : Write(p)
LockUnlock == \E p \in LockCallers : Unlock(p, ConcMode)
LockSet ==
    \E k \in Keys, v \in LockValues \cup LockMaps, d \in LockExpiries :
        Set(k, v, d, ConcMode)
LockDelete == \E k \in Keys : k \in DOMAIN db /\ Delete(k, ConcMode)
LockFlush == db # <<>> /\ Flush(ConcMode)
LockKeys == KeysOp

NextLock ==
    \/ LockCall
    \/ LockTryLock
    \/ LockCheck
    \/ LockWrite
    \/ LockUnlock
    \/ LockSet
    \/ LockDelete
    \/ LockFlush
    \/ LockKeys
    \/ Tick

SpecLock == InitLock /\ [][NextLock]_vars

----------------------------------------------------------------------------
(* SpecAdd: every caller calls Add once, on the same key, which has no     *)
(* entry; nothing else runs but the clock                                  *)

InitAdd == InitWith("redis", RetryBudget)

AddKey == "a"
AddExpiries == {ForEverNeverExpiry, 1}

AddCall ==
    \E p \in Callers, v \in Values, d \in AddExpiries :
        /\ callers[p].ret = "none"
        /\ Call(p, "Add", AddKey, v, d, OnceMode)

AddTryLock == \E p \in Callers : TryLock(p, OnceMode)
AddCheckStep == \E p \in Callers : Check(p)
AddWriteStep == \E p \in Callers : Write(p)
AddUnlock == \E p \in Callers : Unlock(p, OnceMode)

NextAdd ==
    \/ AddCall
    \/ AddTryLock
    \/ AddCheckStep
    \/ AddWriteStep
    \/ AddUnlock
    \/ Tick

SpecAdd == InitAdd /\ [][NextAdd]_vars

----------------------------------------------------------------------------
(* SpecFault: two callers each run one Add, Replace or SetFields on the    *)
(* same key, and any round trip to the store may end with an error         *)

FaultKey == "a"
FaultValues == {Num(1), Map([f \in {"a"} |-> Num(1)])}

InitFault == InitWith("redis", RetryBudget)

FaultCall ==
    \E p \in LockCallers :
        /\ callers[p].ret = "none"
        /\ \/ \E v \in FaultValues :
                 Call(p, "Add", FaultKey, v, ForEverNeverExpiry, FaultMode)
           \/ \E v \in LockValues :
                 Call(p, "Replace", FaultKey, v, ForEverNeverExpiry, FaultMode)
           \/ \E v \in LockFields :
                 Call(p, "SetFields", FaultKey, v, ForEverNeverExpiry, FaultMode)

FaultTryLock == \E p \in LockCallers : TryLock(p, FaultMode)
FaultTryLockFails ==
    \E p \in LockCallers, e \in StoreErrors : TryLockFails(p, e, FaultMode)
FaultCheck == \E p \in LockCallers : Check(p)
FaultWrite == \E p \in LockCallers : Write(p)
FaultOpFails == \E p \in LockCallers, e \in StoreErrors : OpFails(p, e)
FaultUnlock == \E p \in LockCallers : Unlock(p, FaultMode)

NextFault ==
    \/ FaultCall
    \/ FaultTryLock
    \/ FaultTryLockFails
    \/ FaultCheck
    \/ FaultWrite
    \/ FaultOpFails
    \/ FaultUnlock
    \/ Tick

SpecFault == InitFault /\ [][NextFault]_vars

----------------------------------------------------------------------------
(* SpecLive: callers run Add on the same key and may die inside the        *)
(* critical section; time does not stop                                    *)

LiveKey == "a"

InitLive == InitWith("redis", RetryBudget)

LiveCall ==
    \E p \in LockCallers, v \in LockValues :
        Call(p, "Add", LiveKey, v, ForEverNeverExpiry, ConcMode)
LiveTryLock == \E p \in LockCallers : TryLock(p, ConcMode)
LiveCheck == \E p \in LockCallers : Check(p)
LiveWrite == \E p \in LockCallers : Write(p)
LiveUnlock == \E p \in LockCallers : Unlock(p, ConcMode)
LiveCrash == \E p \in LockCallers : Crash(p)

NextLive ==
    \/ LiveCall
    \/ LiveTryLock
    \/ LiveCheck
    \/ LiveWrite
    \/ LiveUnlock
    \/ LiveCrash
    \/ Tick

\* the only fairness is that of the clock: callers may stall or die
SpecLive == InitLive /\ [][NextLive]_vars /\ WF_vars(Tick)

----------------------------------------------------------------------------
(* SpecFrame: the operations of the contract on two keys chosen by the     *)
(* callers, one of which is the other followed by "-op"; on redis one      *)
(* caller runs Add, Replace and SetFields while the others Set and Delete  *)

FrameKeys == {"a", LockKey("a")}
FrameCaller == "g1"
FrameValues == LockMaps
FrameReplacements == {Num(2)}

InitFrame == \E b \in {"inmemory", "redis"} : InitWith(b, RetryBudget)

FrameCall(k) ==
    \/ \E v \in LockValues :
          Call(FrameCaller, "Add", k, v, ForEverNeverExpiry, ConcMode)
    \/ \E v \in FrameReplacements :
          Call(FrameCaller, "Replace", k, v, ForEverNeverExpiry, ConcMode)
    \/ \E v \in LockFields :
          Call(FrameCaller, "SetFields", k, v, ForEverNeverExpiry, ConcMode)

FrameTryLock(k) == callers[FrameCaller].key = k /\ TryLock(FrameCaller, ConcMode)
FrameCheck(k) == callers[FrameCaller].key = k /\ Check(FrameCaller)
FrameWrite(k) == callers[FrameCaller].key = k /\ Write(FrameCaller)
FrameUnlock(k) == callers[FrameCaller].key = k /\ Unlock(FrameCaller, ConcMode)

FrameSet(k) == \E v \in FrameValues : Set(k, v, ForEverNeverExpiry, ConcMode)
FrameDelete(k) == Entry(k) # NoEntry /\ Delete(k, ConcMode)

FrameLocal(k) ==
    \/ \E v \in LockValues : LocalAdd(k, v, ForEverNeverExpiry, ConcMode)
    \/ \E v \in FrameReplacements :
          LocalReplace(k, v, ForEverNeverExpiry, ConcMode)
    \/ \E v \in LockFields : LocalSetFields(k, v, ForEverNeverExpiry, ConcMode)

\* a step of an operation of the contract on key k
FrameOp(k) ==
    \/ FrameCall(k)
    \/ FrameTryLock(k)
    \/ FrameCheck(k)
    \/ FrameWrite(k)
    \/ FrameUnlock(k)
    \/ FrameSet(k)
    \/ FrameDelete(k)
    \/ FrameLocal(k)

NextFrame ==
    \/ \E k \in FrameKeys : FrameOp(k)
    \/ Tick

SpecFrame == InitFrame /\ [][NextFrame]_vars

----------------------------------------------------------------------------
(* SpecRetry: TestRedisCache_LockRetry: lockRetries is 1, every caller     *)
(* runs lockRetry once on the same key, and a critical section lasts until *)
(* every other caller has made its attempt                                 *)

RetryKey == "a"

InitRetry == InitWith("redis", 1)

RetryCall ==
    \E p \in Callers :
        /\ callers[p].ret = "none"
        /\ Call(p, "Sleep", RetryKey, NoValue, ForEverNeverExpiry, OnceMode)

RetryTryLock == \E p \in Callers : TryLock(p, OnceMode)
RetryOp == \E p \in Callers : Check(p)

\* the critical section outlasts the others' attempts
Attempted(q) == callers[q].ret # "none" /\ callers[q].pc # "try"

RetryUnlock ==
    \E p \in Callers :
        /\ \A q \in Callers \ {p} : Attempted(q)
        /\ Unlock(p, OnceMode)

NextRetry ==
    \/ RetryCall
    \/ RetryTryLock
    \/ RetryOp
    \/ RetryUnlock
    \/ Tick

SpecRetry == InitRetry /\ [][NextRetry]_vars

----------------------------------------------------------------------------
(* SpecLocal: goroutines sharing one InMemoryCache: SetFields by two of    *)
(* them, Set (under Lock) and Delete (under RLock) by others               *)

LocalExpiries == {ForEverNeverExpiry, 1}

InitLocal == InitWith("inmemory", defaultLockRetries)

LocalCall ==
    \E p \in LockCallers, k \in Keys, v \in PartialMaps, d \in LocalExpiries :
        LocalSetFieldsLock(p, k, v, d)
LocalGet == \E p \in LockCallers : LocalSetFieldsGet(p, ConcMode)
LocalPut == \E p \in LockCallers : LocalSetFieldsSet(p, ConcMode)

\* c.mu.Lock() waits until no reader holds the mutex
LocalSet ==
    \E k \in Keys, v \in LockValues \cup LockMaps, d \in LocalExpiries :
        Readers = {} /\ Set(k, v, d, ConcMode)

\* Delete takes c.mu.RLock(), which readers do not exclude
LocalDelete == \E k \in Keys : k \in DOMAIN items /\ Delete(k, ConcMode)

NextLocal ==
    \/ LocalCall
    \/ LocalGet
    \/ LocalPut
    \/ LocalSet
    \/ LocalDelete
    \/ Tick
    \/ Janitor

SpecLocal == InitLocal /\ [][NextLocal]_vars

----------------------------------------------------------------------------
(* SpecMulti: GetMulti and the Getter it returns, on either backend, among *)
(* writes, deletes and the passage of time                                 *)

MultiKeys == {"a", "b"}
KeyLists == {<<>>, <<"a">>, <<"a", "b">>}
MultiValues == {Num(1), Str("foo")}
MultiExpiries == {ForEverNeverExpiry, 1}

\* a panic ends the process
Running == getter.kind # "panic"

InitMulti == \E b \in {"inmemory", "redis"} : InitWith(b, defaultLockRetries)

MultiSet ==
    \E k \in MultiKeys, v \in MultiValues, d \in MultiExpiries :
        Running /\ Set(k, v, d, ConcMode)
MultiDelete == \E k \in MultiKeys : Running /\ Entry(k) # NoEntry /\ Delete(k, ConcMode)
MultiFlush == Running /\ (db # <<>> \/ items # <<>>) /\ Flush(ConcMode)
MultiGetMulti == \E keys \in KeyLists : GetMulti(keys)
MultiGetterGet == \E k \in MultiKeys, t \in {"int", "string"} : Running /\ GetterGet(k, t)
MultiTick == Running /\ Tick
MultiJanitor == Running /\ Janitor

NextMulti ==
    \/ MultiSet
    \/ MultiDelete
    \/ MultiFlush
    \/ MultiGetMulti
    \/ MultiGetterGet
    \/ MultiTick
    \/ MultiJanitor

SpecMulti == InitMulti /\ [][NextMulti]_vars

----------------------------------------------------------------------------
(* Properties of the contract, checked under Spec                          *)

\* the operation op on k has returned and nothing has written k since
Finished(k, op) == AllIdle /\ log[k].op = op /\ log[k].err # "pending"

\* the expiry argument as a duration: DefaultExpiry is the configured one
Resolved(d) == IF d = DefaultExpiryTime THEN defaultExpiration ELSE d

\* the expiry given to the logged operation has not elapsed
Within(r) == Resolved(r.d) < 0 \/ now <= r.at + Resolved(r.d)

\* the logged operation found a live entry / an expired one
FoundLive(r) == LiveAt(backend, r.pre, r.at)
FoundExpired(r) ==
    \/ r.pre = ExpiredEntry
    \/ r.pre \notin {NoEntry, ExpiredEntry} /\ ~LiveAt(backend, r.pre, r.at)

\* what Get decodes from the entry e
Decoded(e, target) ==
    IF backend = "redis" THEN Unmarshal(e.val, target)
    ELSE Unmarshal(Marshal(e.Object), target)

\* a Get of k into target has just returned
Got(k, target) == obs.op = "Get" /\ obs.key = k /\ obs.target = target
GotAny(k) == obs.op = "Get" /\ obs.key = k

\* C3: on either backend, a successful SetFields(k, P, t) on a key holding
\* the mapping M leaves the merge of M and P (P's fields with P's values,
\* M's other fields kept, nothing else), which the next Get(k) returns.
C3_SetFieldsMerges ==
    \A k \in Keys :
        ( /\ Finished(k, "SetFields")
          /\ log[k].err = Nil
          /\ FoundLive(log[k])
          /\ Decoded(log[k].pre, "map").err = Nil
          /\ Within(log[k])
          /\ Got(k, "map") )
        => /\ obs.err = Nil
           /\ obs.val = Map(Merge(Decoded(log[k].pre, "map").val.map, log[k].arg.map))

\* C5: on either backend, Set(k, v, t) followed by Get(k) before t has
\* elapsed, with no other operation on k in between, returns success and v.
C5_SetGetRoundTrip ==
    \A k \in Keys :
        ( /\ Finished(k, "Set")
          /\ Within(log[k])
          /\ Got(k, TargetOf(log[k].arg)) )
        => obs.err = Nil /\ obs.val = log[k].arg

C5_Witness ==
    \E k \in Keys :
        /\ backend = "redis"
        /\ Finished(k, "Set")
        /\ IsStr(log[k].arg)
        /\ log[k].d > 0
        /\ now > log[k].at
        /\ Got(k, "string")
        /\ obs.val = log[k].arg

\* C6: on either backend, after a successful Add(k, v, t) or Replace(k, v, t)
\* a Get(k) before t elapses returns success and v, for a number, a string
\* and a mapping alike, as it would after Set(k, v, t).
C6_WritePathsEncodeAlike ==
    \A k \in Keys :
        ( /\ Finished(k, "Add") \/ Finished(k, "Replace")
          /\ log[k].err = Nil
          /\ Within(log[k])
          /\ Got(k, TargetOf(log[k].arg)) )
        => obs.err = Nil /\ obs.val = log[k].arg

\* C7: on either backend, Add(k, v2, t) on a key holding a live entry
\* returns NotStored and leaves the entry unchanged: its value, which the
\* next Get(k) returns, and its expiry.
C7_AddOnLiveKey ==
    \A k \in Keys :
        ( /\ Finished(k, "Add")
          /\ LiveAt(backend, log[k].pre, now) )
        => /\ log[k].err = ErrNotStored
           /\ Entry(k) = log[k].pre
           /\ \A t \in Targets :
                 Got(k, t) => /\ obs.err = Decoded(log[k].pre, t).err
                              /\ obs.val = Decoded(log[k].pre, t).val

C7_Witness ==
    \E k \in Keys :
        /\ backend = "redis"
        /\ Finished(k, "Add")
        /\ log[k].err = ErrNotStored
        /\ log[k].pre = Entry(k)
        /\ Got(k, "int")
        /\ obs.err = Nil
        /\ obs.val # log[k].arg

\* C8: on either backend, Replace(k, v, t) on a key with no entry returns
\* NotStored and creates nothing: Get(k) then misses and Keys() has no k.
C8_ReplaceOnAbsentKey ==
    \A k \in Keys :
        ( /\ Finished(k, "Replace")
          /\ log[k].pre = NoEntry )
        => /\ log[k].err = ErrNotStored
           /\ Entry(k) = NoEntry
           /\ GotAny(k) => obs.err = ErrCacheMiss
           /\ obs.op = "Keys" => k \notin obs.keys

C8_Witness ==
    \E k \in Keys :
        /\ backend = "redis"
        /\ Finished(k, "Replace")
        /\ log[k].pre = NoEntry
        /\ log[k].err = ErrNotStored
        /\ obs.op = "Keys"
        /\ k \notin obs.keys

\* C9: on either backend, once the expiry of k's entry has elapsed,
\* Add(k, v, t) succeeds and the next Get(k) returns v, while
\* Replace(k, v, t) returns NotStored and the next Get(k) misses.
C9_ExpiredCountsAsAbsent ==
    \A k \in Keys :
        /\ ( Finished(k, "Add") /\ FoundExpired(log[k]) )
           => /\ log[k].err = Nil
              /\ (Within(log[k]) /\ Got(k, TargetOf(log[k].arg)))
                    => obs.err = Nil /\ obs.val = log[k].arg
        /\ ( Finished(k, "Replace") /\ FoundExpired(log[k]) )
           => /\ log[k].err = ErrNotStored
              /\ GotAny(k) => obs.err = ErrCacheMiss

\* C10: on either backend, SetFields(k, P, t) on a key with no entry returns
\* NotStored and creates no entry: Get(k) then misses.
C10_SetFieldsOnAbsentKey ==
    \A k \in Keys :
        ( /\ Finished(k, "SetFields")
          /\ log[k].pre = NoEntry )
        => /\ log[k].err = ErrNotStored
           /\ Entry(k) = NoEntry
           /\ GotAny(k) => obs.err = ErrCacheMiss


\* C11: on either backend, SetFields(k, P, t) on a key whose live stored
\* value is not a field mapping returns an error and leaves the entry
\* unchanged: its value, which the next Get(k) returns, and its expiry.
C11_SetFieldsOnNonMapping ==
    \A k \in Keys :
        ( /\ Finished(k, "SetFields")
          /\ LiveAt(backend, log[k].pre, now)
          /\ Decoded(log[k].pre, "map").err # Nil )
        => /\ log[k].err \in {ErrUnmarshalType, ErrSyntax}
           /\ Entry(k) = log[k].pre
           /\ \A t \in Targets :
                 Got(k, t) => /\ obs.err = Decoded(log[k].pre, t).err
                              /\ obs.val = Decoded(log[k].pre, t).val

C11_Witness ==
    \E k \in Keys :
        /\ backend = "redis"
        /\ Finished(k, "SetFields")
        /\ LiveAt(backend, log[k].pre, now)
        /\ log[k].err = ErrUnmarshalType
        /\ Got(k, "int")
        /\ obs.err = Nil
        /\ obs.val = Num(1)

\* the literal duration given to the logged operation has elapsed
Elapsed(r) == r.d > 0 /\ now > r.at + r.d

\* C12: on either backend, after Set(k, v, t) with a literal duration t,
\* once t has elapsed with no later write to k every Get(k) misses; and an
\* entry written with ForEverNeverExpiry keeps being returned by Get(k),
\* however much time passes.
C12_ExpiryTurnsIntoMiss ==
    \A k \in Keys :
        /\ ( Finished(k, "Set") /\ Elapsed(log[k]) /\ GotAny(k) )
           => obs.err = ErrCacheMiss
        /\ ( /\ Finished(k, "Set")
             /\ log[k].d = ForEverNeverExpiry
             /\ Got(k, TargetOf(log[k].arg)) )
           => obs.err = Nil /\ obs.val = log[k].arg

C12_Witness ==
    \E k \in Keys :
        /\ backend = "inmemory"
        /\ Finished(k, "Set")
        /\ Elapsed(log[k])
        /\ k \in DOMAIN items
        /\ GotAny(k)
        /\ obs.err = ErrCacheMiss

C12_WitnessForEver ==
    \E k \in Keys :
        /\ Finished(k, "Set")
        /\ log[k].d = ForEverNeverExpiry
        /\ now = MaxNow /\ log[k].at = 1
        /\ Got(k, TargetOf(log[k].arg))
        /\ obs.err = Nil

\* the logged operation is a write that succeeded
Wrote(k) ==
    /\ \E op \in {"Set", "Add", "Replace", "SetFields"} : Finished(k, op)
    /\ log[k].err = Nil

\* C13: on either backend, a successful write with expiry DefaultExpiryTime
\* makes an entry that expires as one written with the duration the
\* backend was constructed with: Get(k) does not miss before that duration
\* has elapsed and misses after it.
C13_DefaultExpiryResolved ==
    \A k \in Keys :
        ( Wrote(k) /\ log[k].d = DefaultExpiryTime /\ GotAny(k) )
        => IF now > log[k].at + defaultExpiration
           THEN obs.err = ErrCacheMiss
           ELSE obs.err # ErrCacheMiss

\* C14 (as stated): Delete(k) on a key with no entry returns success on the
\* local backend and ErrCacheMiss on the networked one, and changes nothing
C14_DeleteAbsentDiverges ==
    \A k \in Keys :
        ( Finished(k, "Delete") /\ log[k].pre = NoEntry )
        => /\ log[k].err = IF backend = "redis" THEN ErrCacheMiss ELSE Nil
           /\ Entry(k) = NoEntry

\* C14 (amended): Delete(k) on a key with no entry returns success on both
\* backends and changes nothing: the key still has no entry and Get misses
C14_DeleteAbsentSucceeds ==
    \A k \in Keys :
        ( Finished(k, "Delete") /\ log[k].pre = NoEntry )
        => /\ log[k].err = Nil
           /\ Entry(k) = NoEntry
           /\ GotAny(k) => obs.err = ErrCacheMiss

C14_Witness ==
    \E k \in Keys :
        /\ backend = "redis"
        /\ Finished(k, "Delete")
        /\ log[k].pre = NoEntry
        /\ log[k].err = Nil
        /\ GotAny(k)
        /\ obs.err = ErrCacheMiss

\* C18: on either backend, after Flush() has returned and before any later
\* write, Get(k) misses for every key k and Keys() is empty, whatever
\* entries and expiries there were.
C18_FlushEmpties ==
    (\A k \in Keys : Finished(k, "Flush"))
    => /\ \A k \in Keys : log[k].err = Nil /\ Entry(k) = NoEntry
       /\ obs.op = "Get" => obs.err = ErrCacheMiss
       /\ obs.op = "Keys" => obs.keys = {}

C18_Witness ==
    /\ \A k \in Keys : Finished(k, "Flush") /\ LiveAt(backend, log[k].pre, log[k].at)
    /\ backend = "inmemory"
    /\ obs.op = "Keys"
    /\ obs.keys = {}

----------------------------------------------------------------------------
(* Properties of the lock protocol, checked under SpecLock and SpecAdd     *)

InCritical(k) == {p \in Callers : Holding(callers[p]) /\ callers[p].key = k}

\* C2: while one caller is between acquiring and releasing the lock token
\* of key k, no other caller is inside a locked operation on k
C2_MutualExclusion == \A k \in Keys : Cardinality(InCritical(k)) <= 1

AddDone == \A p \in Callers : callers[p].ret \notin {"none", "pending"}

Winners == {p \in Callers : callers[p].ret = Nil}

C17_KeysAreTheLiveKeys ==
    obs.op = "Keys" => obs.keys = {k \in Keys : Live(k)}

----------------------------------------------------------------------------
(* Properties of GetMulti, checked under SpecMulti                         *)

\* what a Get of k would have returned when GetMulti was called
AtCallTime(k, target) ==
    IF backend = "redis" THEN RedisCacheGet(ghost.snap.db, k, target)
    ELSE InMemoryGet(ghost.snap.items, k, target, ghost.snap.at)

\* the requested keys that had a live entry / none when GetMulti was called
SnapLive == {k \in ghost.snap.keys : AtCallTime(k, "int").err # ErrCacheMiss}
SnapAbsent == ghost.snap.keys \ SnapLive

\* C15: networked backend: GetMulti of a key with a live entry and a key
\* with none returns a Getter without aborting; on it Get of the first
\* succeeds with its value and Get of the second returns ErrCacheMiss.
C15_GetMultiWithAbsentKey ==
    (backend = "redis" /\ SnapLive # {} /\ SnapAbsent # {})
    => /\ getter.kind = "map"
       /\ obs.op = "GetMulti" => obs.err = Nil
       /\ (obs.op = "GetterGet" /\ obs.key \in SnapAbsent) => obs.err = ErrCacheMiss
       /\ (obs.op = "GetterGet" /\ obs.key \in SnapLive)
             => /\ obs.err = AtCallTime(obs.key, obs.target).err
                /\ obs.val = AtCallTime(obs.key, obs.target).val

\* C16: on either backend the Getter returned by GetMulti is a snapshot:
\* Get on it, for a requested key, returns what the backend held when
\* GetMulti was called, whatever was set, deleted, flushed or expired since.
C16_GetterIsSnapshot ==
    (obs.op = "GetterGet" /\ obs.key \in ghost.snap.keys)
    => /\ obs.err = AtCallTime(obs.key, obs.target).err
       /\ obs.val = AtCallTime(obs.key, obs.target).val

----------------------------------------------------------------------------
(* Properties of the retry budget, checked under SpecRetry                 *)

\* C19: with a retry budget of 1, when every caller has returned from a
\* lockRetry on the same key whose critical sections outlast the others'
\* attempts, exactly one critical section has run (lockRetry returned
\* nil) and every other caller got the contention error, so successes
\* plus contention failures are all the callers.
C19_OneWinnerPerEpoch ==
    AddDone =>
        /\ Cardinality(Winners) = 1
        /\ \A p \in Callers \ Winners : callers[p].ret = ErrLock

----------------------------------------------------------------------------
(* Properties of the local backend's mutex, checked under SpecLocal        *)

\* C20: local backend: SetFields holds the mutex exclusively for its whole
\* read-merge-write, so what it writes is what a read-merge-write done at
\* the instant of the write would write, whatever SetFields, Set or Delete
\* of the same key run concurrently: no update of another operation is
\* lost and no deleted entry comes back.
C20_LocalSetFieldsAtomic == ghost.torn = ""

----------------------------------------------------------------------------
(* Properties of lockRetry itself                                          *)

\* caller p returns in this step with the contention error
GivesUp(p) == callers[p].ret = "pending" /\ callers'[p].ret = ErrLock

\* C21: a lockRetry call with retry budget R makes at most R attempts at
\* creating the token; it returns the contention error, which is not nil,
\* ErrNotStored or ErrCacheMiss, only from its R-th failed attempt, without
\* having entered its critical section, and that call leaves the entry of
\* the protected key as it was.
C21_BoundedRetry ==
    [][\A p \in Callers :
          /\ callers[p].pc = "try" => callers[p].attempt < lockRetries
          /\ (callers[p].pc = "try" /\ callers'[p].pc = "idle") => GivesUp(p)
          /\ GivesUp(p) =>
                /\ callers[p].pc = "try"
                /\ callers[p].attempt + 1 = lockRetries
                /\ LockKey(callers[p].key) \in DOMAIN db
                /\ db' = db
                /\ ErrLock \notin {Nil, ErrNotStored, ErrCacheMiss}]_vars

C21_Witness ==
    \E p \in Callers :
        /\ callers[p].ret = ErrLock
        /\ callers[p].pc = "idle"
        /\ lockRetries = RetryBudget

\* C22: when SetNX of the token ends with a store error, lockRetry makes no
\* further attempt and does not enter the critical section: the call is
\* over, and what it returned is that error, whatever was left of the budget.
C22_StoreErrorEndsCall ==
    \A p \in DOMAIN ghost.fault :
        /\ callers[p].pc = "idle"
        /\ callers[p].ret = ghost.fault[p].err
        /\ callers[p].attempt = ghost.fault[p].attempt

C22_Witness ==
    \E p \in DOMAIN ghost.fault :
        /\ ghost.fault[p].attempt + 1 < lockRetries
        /\ callers[p].ret = "i/o timeout"
        /\ callers[p].pc = "idle"

\* C23: a lockRetry call that created the token goes through its critical
\* section once, from its first round trip to its return; the step that
\* follows the critical section deletes the token and returns what the
\* critical section returned, whatever that was and however many attempts
\* the call had spent on contention.
C23_CriticalSectionOnce ==
    [][\A p \in Callers :
          LET c == callers[p]
              c2 == callers'[p]
          IN  c2 # c =>
                /\ c.pc = "try" /\ c2.pc = "crit" =>
                      /\ LockKey(c.key) \notin DOMAIN db
                      /\ LockKey(c.key) \in DOMAIN db'
                /\ c.pc = "crit" => c2.pc \in {"write", "unlock"}
                /\ c.pc = "write" => c2.pc = "unlock"
                /\ c.pc = "unlock" =>
                      /\ c2.pc = "idle"
                      /\ c2.ret = c.breakErr
                      /\ LockKey(c.key) \notin DOMAIN db'
                /\ c2.pc = "crit" => c.pc = "try"]_vars

\* a call that met contention first, then created the token, and returned
\* what its critical section returned
C23_Witness ==
    \E p \in Callers :
        /\ callers[p].pc = "idle"
        /\ callers[p].attempt > 0
        /\ callers[p].ret = ErrNotStored
        /\ LockKey(callers[p].key) \notin DOMAIN db

C23_WitnessStoreError ==
    \E p \in Callers :
        /\ callers[p].pc = "idle"
        /\ callers[p].ret \in StoreErrors
        /\ p \notin DOMAIN ghost.fault

\* the token of key k is there, and its window ends before the clock of
\* the model stops
TokenHeld(k) ==
    /\ LockKey(k) \in DOMAIN db
    /\ db[LockKey(k)].exp < MaxNow

\* C24: a token does not stay forever: from a state where the token of a
\* key exists, a state where it is absent is reached, by the release or by
\* the expiry of the token, also when its holder died in the critical
\* section; a SetNX made in that state creates the token.
C24_TokenGoesAway ==
    /\ \A k \in Keys : TokenHeld(k) ~> (LockKey(k) \notin DOMAIN db)
    /\ [](\A k \in Keys :
             LockKey(k) \notin DOMAIN db =>
                 RedisSETNX(db, LockKey(k), <<"1">>, lockExpiry, now).ret)

\* the holder of the token died, the token expired, and another caller
\* created it again
C24_Witness ==
    \E p, q \in Callers :
        /\ callers[p].pc = "crashed"
        /\ callers[q].pc = "crit"
        /\ callers[q].key = callers[p].key
        /\ now = MaxNow
        /\ Lookup(ghost.owner, LockKey(callers[q].key)) = q

\* C25: a step of Set, Add, Replace, SetFields or Delete on key k leaves
\* the entry (value and expiry) of every other key of the callers as it
\* was, the key made of k and "-op" included.
C25_OtherKeysUntouched ==
    [][\A k \in FrameKeys :
          FrameOp(k) =>
              \A j \in FrameKeys \ {k} :
                  EntryIn(backend', db', items', j) = Entry(j)]_vars

\* the release step of caller p
Releases(p) == callers[p].pc = "unlock" /\ callers'[p].pc # "unlock"

\* C26: the release at the end of a critical section deletes a token only
\* if the releasing caller created it: a token that another caller created
\* after the first one expired or was flushed is left in place.
C26_ReleaseOnlyOwnToken ==
    [][\A p \in Callers :
          LET lk == LockKey(callers[p].key)
          IN  (Releases(p) /\ lk \in DOMAIN db /\ lk \notin DOMAIN db')
                  => Lookup(ghost.owner, lk) = p]_vars

============================================================================
